---- MODULE Spec2Model ----
(***************************************************************************)
(* libvpsc: Variable Placement with Separation Constraints.                *)
(*                                                                         *)
(* The batch Solver and the incremental IncSolver of solve_VPSC.cpp as a   *)
(* state machine.  Positions are exact fractions: a block stores its       *)
(* weighted position wposn and its weight, its position is wposn/weight,   *)
(* and a variable's position is posn + offset (scale is 1 throughout).     *)
(* Desired positions, gaps and weights are integers.                       *)
(***************************************************************************)
EXTENDS Integers, Sequences, FiniteSets, TLC

\* ------------------------------------------------------------------ bounds
NumVars == 3
MaxCons == 3
MaxPos == 2
MaxGap == 1
MaxCalls == 2
MaxMoves == 1
MaxWeight == 1
SatCap == 3
MaxOffset == 5
HeavyWeight == 4
MaxClusters == 2
MaxLength == 2
MaxSep == 1
MaxTmp == 2
MaxOut == 3

\* ------------------------------------------------------- program constants
\* refine's iteration cap
MaxTries == 100

NoBlock == [vars |-> {}, wposn |-> 0, weight |-> 0, deleted |-> TRUE]
NullC == 0
\* DBL_MAX, as a fraction above every other
DBL_MAX == <<1, 0>>

\* ------------------------------------------------------------ arithmetic
Abs(x) == IF x < 0 THEN 0 - x ELSE x

RECURSIVE Gcd(_, _)
Gcd(a, b) == IF b = 0 THEN a ELSE Gcd(b, a % b)

\* the fraction num/den (den >= 0) in lowest terms
Frac(num, den) ==
    LET g == Gcd(Abs(num), den) IN
    IF g = 0 THEN <<0, 1>> ELSE <<num \div g, den \div g>>

\* a * 10^k > b for a, b >= 0, without forming 10^k
RECURSIVE ExceedsPow10(_, _, _)
ExceedsPow10(a, k, b) ==
    IF a > b THEN TRUE
    ELSE IF k = 0 \/ a = 0 THEN FALSE
    ELSE ExceedsPow10(a * 10, k - 1, b)

\* num/den < ZERO_UPPERBOUND = -1e-10
BelowZeroUpperBound(num, den) == num < 0 /\ ExceedsPow10(0 - num, 10, den)

\* num/den < LAGRANGIAN_TOLERANCE = -1e-4
BelowLagrangianTolerance(num, den) == num < 0 /\ ExceedsPow10(0 - num, 4, den)

RECURSIVE SumOver(_, _)
SumOver(S, f) ==
    IF S = {} THEN 0
    ELSE LET x == CHOOSE y \in S : TRUE IN f[x] + SumOver(S \ {x}, f)

SetMin(S) == CHOOSE x \in S : \A y \in S : x <= y

\* ---------------------------------------------------------------- inputs
CTypes ==
    [left : 1..NumVars, right : 1..NumVars, gap : 1..MaxGap, equality : BOOLEAN]

\* the place of a constraint in the order the inputs are listed in
Rank(c) ==
    (((c.left - 1) * NumVars + (c.right - 1)) * MaxGap + (c.gap - 1)) * 2
      + (IF c.equality THEN 1 ELSE 0)

\* the lists of at most n distinct constraints, each in rising rank
RECURSIVE ListsUpTo(_)
ListsUpTo(k) ==
    IF k = 0 THEN {<<>>}
    ELSE LET R == ListsUpTo(k - 1) IN
         R \cup {Append(q, x) :
                   q \in {r \in R : Len(r) = k - 1},
                   x \in {c \in CTypes : c.left # c.right}}

Rising(q) == \A i \in 1..(Len(q) - 1) : Rank(q[i]) < Rank(q[i + 1])

ConstraintLists == {q \in ListsUpTo(MaxCons) : Rising(q)}

\* ----------------------------------------------------------------- state
VARIABLES
    kind,           \* "batch" (Solver) or "inc" (IncSolver)
    n,              \* Solver::n, the number of variables
    cs,             \* the constraints, in input order
    desired,        \* Variable::desiredPosition
    weight,         \* Variable::weight
    finalPosition,  \* Variable::finalPosition, a fraction <<n, d>>
    st,             \* blocks, block set, offsets, flags, inactive list
    pc,             \* position of the running operation, "idle" when none
    op,             \* the public operation running or last run
    loc,            \* locals of the running operation
    ret,            \* outcome of the last operation
    calls,          \* public calls made so far
    moves,          \* desired-position changes made so far
    lastSolve,      \* the result of the last solve() on the present inputs
    cl              \* a Cluster generating its non-overlap constraints

vars ==
    <<kind, n, cs, desired, weight, finalPosition, st, pc, op, loc, ret,
      calls, moves, lastSolve, cl>>

Vars == 1..n
BlockIds == 1..(3 * n)
CIdx == 1..Len(cs)

\* ------------------------------------------------- fractions and positions
FracLess(f, g) == f[1] * g[2] < g[1] * f[2]
FracLeq(f, g) == f[1] * g[2] <= g[1] * f[2]
FracAdd(f, g) == Frac(f[1] * g[2] + g[1] * f[2], f[2] * g[2])
FracSub(f, g) == Frac(f[1] * g[2] - g[1] * f[2], f[2] * g[2])
FracAbs(f) == <<Abs(f[1]), f[2]>>

\* Variable::position(): block->posn + offset (scale = 1)
Position(s, v) ==
    LET b == s.blocks[s.blockOf[v]] IN
    Frac(b.wposn + s.offset[v] * b.weight, b.weight)

\* Constraint::slack(): right->position() - gap - left->position()
Slack(s, c) ==
    LET pl == Position(s, cs[c].left)
        pr == Position(s, cs[c].right) IN
    Frac(pr[1] * pl[2] - pl[1] * pr[2] - cs[c].gap * pl[2] * pr[2],
         pl[2] * pr[2])

Violated(s, c) == BelowZeroUpperBound(Slack(s, c)[1], Slack(s, c)[2])

\* ----------------------------------------------------------------- blocks
\* a block holding the variables vs at the offsets off, placed at the
\* weighted mean of the positions its members desire
MakeBlock(vs, off) ==
    [vars |-> vs,
     wposn |-> SumOver(vs, [v \in Vars |-> weight[v] * (desired[v] - off[v])]),
     weight |-> SumOver(vs, weight),
     deleted |-> FALSE]

FreeIds(s) == {b \in BlockIds : s.blocks[b] = NoBlock}
NewId(s) == SetMin(FreeIds(s))

\* the variables joined to those of S by active constraints other than excl
RECURSIVE Component(_, _, _)
Component(s, S, excl) ==
    LET N == S \cup
             {cs[i].right : i \in {j \in CIdx : j # excl /\ s.active[j]
                                                /\ cs[j].left \in S}}
               \cup
             {cs[i].left : i \in {j \in CIdx : j # excl /\ s.active[j]
                                               /\ cs[j].right \in S}}
    IN IF N = S THEN S ELSE Component(s, N, excl)

\* the variables reached from those of S along active constraints, left to right
RECURSIVE Downstream(_, _)
Downstream(s, S) ==
    LET N == S \cup
             {cs[i].right : i \in {j \in CIdx : s.active[j] /\ cs[j].left \in S}}
    IN IF N = S THEN S ELSE Downstream(s, N)

\* Block::isActiveDirectedPathBetween(u, v)
IsActiveDirectedPathBetween(s, u, v) == v \in Downstream(s, {u})

\* Block::updateWeightedPosition()
UpdateWeightedPosition(s, b) ==
    [s EXCEPT !.blocks[b].wposn =
        SumOver(s.blocks[b].vars,
                [v \in Vars |-> weight[v] * (desired[v] - s.offset[v])])]

\* Block::merge over c: the block of c's right variable is rebased onto the
\* block of c's left variable and absorbed by it
Merge(s, c) ==
    LET l == cs[c].left
        r == cs[c].right
        L == s.blockOf[l]
        R == s.blockOf[r]
        delta == s.offset[l] + cs[c].gap - s.offset[r]
        moved == s.blocks[R].vars
        off == [v \in Vars |->
                  IF v \in moved THEN s.offset[v] + delta ELSE s.offset[v]]
    IN [s EXCEPT
          !.offset = off,
          !.blocks = [s.blocks EXCEPT
                        ![L] = MakeBlock(s.blocks[L].vars \cup moved, off),
                        ![R].deleted = TRUE],
          !.blockOf = [v \in Vars |->
                         IF v \in moved THEN L ELSE s.blockOf[v]],
          !.active[c] = TRUE]

\* Block::split at the active constraint c: two new blocks, one with the
\* variables on c's left side and one with those on its right side
Split(s, c) ==
    LET lv == Component(s, {cs[c].left}, c)
        rv == Component(s, {cs[c].right}, c)
        l == NewId(s)
        r == SetMin(FreeIds(s) \ {l})
    IN [s EXCEPT
          !.blocks = [s.blocks EXCEPT ![l] = MakeBlock(lv, s.offset),
                                      ![r] = MakeBlock(rv, s.offset)],
          !.blockOf = [v \in Vars |->
                         IF v \in lv THEN l
                         ELSE IF v \in rv THEN r ELSE s.blockOf[v]],
          !.active[c] = FALSE]

\* the Lagrange multiplier of the active constraint c: the sum of
\* weight * (position - desired) over the variables on c's right side
LM(s, c) ==
    LET b == s.blocks[s.blockOf[cs[c].right]]
        side == Component(s, {cs[c].right}, c)
    IN Frac(SumOver(side,
                    [v \in Vars |->
                       weight[v] * (b.wposn + (s.offset[v] - desired[v]) * b.weight)]),
            b.weight)

\* the constraint of least multiplier among Cand, the earliest on a tie
RECURSIVE MinLMFrom(_, _, _)
MinLMFrom(s, Cand, best) ==
    IF Cand = {} THEN best
    ELSE LET c == SetMin(Cand) IN
         MinLMFrom(s, Cand \ {c},
                   IF best = NullC \/ FracLess(LM(s, c), LM(s, best))
                   THEN c ELSE best)

MinLMOf(s, Cand) == MinLMFrom(s, Cand, NullC)

\* the active constraints inside block b
ActiveIn(s, b) ==
    {c \in CIdx : s.active[c] /\ cs[c].left \in s.blocks[b].vars
                              /\ cs[c].right \in s.blocks[b].vars}

\* Block::findMinLM()
FindMinLM(s, b) ==
    LET m == MinLMOf(s, {c \in ActiveIn(s, b) : ~cs[c].equality}) IN
    IF m # NullC /\ LM(s, m)[1] < 0 THEN m ELSE NullC

Splittable(s, c) ==
    c # NullC /\ BelowLagrangianTolerance(LM(s, c)[1], LM(s, c)[2])

\* the active constraints on the path between u and v in their block
PathBetween(s, u, v) ==
    {c \in ActiveIn(s, s.blockOf[u]) :
        LET side == Component(s, {cs[c].left}, c) IN
        (u \in side) # (v \in side)}

\* a choice among all the constraints of the path, whichever way they point
AlongPathEitherWay(s, u, v) == PathBetween(s, u, v)

\* those of them that point along the path from u to v: u is on the side of
\* their left variable
AlongPath(s, u, v) ==
    {c \in PathBetween(s, u, v) : u \in Component(s, {cs[c].left}, c)}

\* Block::splitBetween(vl, vr, lb, rb): the split, or NullC and s unchanged
SplitBetweenOn(s, vl, vr) ==
    MinLMOf(s, {c \in AlongPath(s, vl, vr) : ~cs[c].equality})

SplitBetween(s, vl, vr) ==
    LET c == SplitBetweenOn(s, vl, vr)
        b == s.blockOf[vl] IN
    IF c = NullC THEN s
    ELSE [Split(s, c) EXCEPT !.blocks[b].deleted = TRUE]

\* ------------------------------------------------------------- block set
\* Blocks::cleanup(): tombstoned blocks leave the set and are freed
Cleanup(s) ==
    [s EXCEPT
       !.bs = {b \in s.bs : ~s.blocks[b].deleted},
       !.blocks = [b \in BlockIds |->
                     IF s.blocks[b].deleted THEN NoBlock ELSE s.blocks[b]]]

\* Blocks::insert(b)
Insert(s, b) == [s EXCEPT !.bs = s.bs \cup {b}]

\* weight * (position - desired)^2 of one variable; Block::cost() sums it
\* over the variables of a block, Blocks::cost() over the blocks of the set
VarCost(s, v) ==
    LET p == Position(s, v)
        dev == p[1] - desired[v] * p[2] IN
    Frac(weight[v] * dev * dev, p[2] * p[2])

RECURSIVE CostOver(_, _)
CostOver(s, S) ==
    IF S = {} THEN <<0, 1>>
    ELSE LET v == CHOOSE x \in S : TRUE IN
         FracAdd(VarCost(s, v), CostOver(s, S \ {v}))

\* the sum of Block::cost() over the blocks of B
RECURSIVE BlocksCost(_, _)
BlocksCost(s, B) ==
    IF B = {} THEN <<0, 1>>
    ELSE LET b == CHOOSE x \in B : TRUE IN
         FracAdd(CostOver(s, s.blocks[b].vars), BlocksCost(s, B \ {b}))

Cost(s) == BlocksCost(s, s.bs)

\* the loop condition with a threshold no difference falls below
CostChangedAlways(lastcost, cost) ==
    \/ lastcost = DBL_MAX
    \/ FracLeq(<<0, 1>>, FracAbs(FracSub(lastcost, cost)))

\* fabs(lastcost - cost) > 0.0001
CostChanged(lastcost, cost) ==
    \/ lastcost = DBL_MAX
    \/ LET d == FracAbs(FracSub(lastcost, cost)) IN ExceedsPow10(d[1], 4, d[2])


\* Blocks::totalOrder(): the variables in a topological order of the
\* constraint graph (a variable on a cycle is placed when nothing else can be)
RECURSIVE TotalOrderFrom(_)
TotalOrderFrom(placed) ==
    LET done == {placed[i] : i \in 1..Len(placed)}
        rest == Vars \ done
        held == {cs[c].right : c \in {d \in CIdx : cs[d].left \notin done}}
        ready == rest \ held
    IN IF rest = {} THEN placed
       ELSE TotalOrderFrom(Append(placed,
                IF ready # {} THEN SetMin(ready) ELSE SetMin(rest)))

TotalOrder == TotalOrderFrom(<<>>)

\* the inactive constraints entering block b from another block
InConstraints(s, b) ==
    {c \in CIdx : ~s.active[c] /\ cs[c].right \in s.blocks[b].vars
                               /\ cs[c].left \notin s.blocks[b].vars}

\* the constraint of least slack among Cand, the earliest on a tie
RECURSIVE MinSlackFrom(_, _, _)
MinSlackFrom(s, Cand, best) ==
    IF Cand = {} THEN best
    ELSE LET c == SetMin(Cand) IN
         MinSlackFrom(s, Cand \ {c},
                      IF best = NullC \/ FracLess(Slack(s, c), Slack(s, best))
                      THEN c ELSE best)

MinSlackOf(s, Cand) == MinSlackFrom(s, Cand, NullC)

\* Blocks::mergeLeft(b): while an incoming constraint is violated, merge with
\* the block on its left, the most violated constraint first
RECURSIVE MergeLeft(_, _)
MergeLeft(s, b) ==
    IF InConstraints(s, b) = {} THEN s
    ELSE LET c == MinSlackOf(s, InConstraints(s, b)) IN
         IF Slack(s, c)[1] < 0
         THEN MergeLeft(Merge(s, c), s.blockOf[cs[c].left])
         ELSE s

\* Blocks::split(b, l, r, c): b is split at c, its halves join the block set
BlocksSplit(s, b, c) ==
    LET t == Split(s, c)
        l == t.blockOf[cs[c].left]
        r == t.blockOf[cs[c].right]
    IN [t EXCEPT !.blocks[b].deleted = TRUE, !.bs = t.bs \cup {l, r}]

\* ---------------------------------------------------------------- solver
\* Solver::copyResult()
CopyResult(s) == [v \in Vars |-> Position(s, v)]

\* the first constraint, in input order, with slack < ZERO_UPPERBOUND
FirstViolated(s) ==
    IF \E c \in CIdx : Violated(s, c)
    THEN SetMin({c \in CIdx : Violated(s, c)})
    ELSE NullC

AnyActive(s) == \E c \in CIdx : s.active[c]

\* no cluster is at work
NoCluster ==
    [dim |-> "HORIZONTAL", clusters |-> 0, node |-> TRUE, length |-> <<>>,
     stage |-> "off", at |-> 0, tmp_cs |-> <<>>, i |-> 0, cs |-> <<>>,
     made |-> <<>>]

NoLoc ==
    [order |-> <<>>, i |-> 0, solved |-> FALSE, maxtries |-> 0,
     pending |-> {}, splitCnt |-> 0, lastcost |-> DBL_MAX, cost |-> DBL_MAX,
     phase |-> 0]

NoneSolved == [valid |-> FALSE, final |-> <<>>, again |-> FALSE, rebuilt |-> FALSE]

Returned(val) == [status |-> "ok", value |-> val, c |-> NullC, type |-> "none"]
NoRet == [status |-> "none", value |-> FALSE, c |-> NullC, type |-> "none"]

\* throw UnsatisfiedConstraint(*cs[i])
Threw(c) ==
    [status |-> "throw", value |-> FALSE, c |-> c,
     type |-> "UnsatisfiedConstraint"]

\* throw s.str().c_str(): a pointer into a string that is destroyed before
\* the handler runs; what is read there names the constraint c or nothing
ThrewText(c) ==
    {[status |-> "throw", value |-> FALSE, c |-> x, type |-> "char*"] :
       x \in {c, NullC}}

\* what the verification of satisfy throws for the constraint c
Thrown(k, c) == IF k = "batch" THEN {Threw(c)} ELSE ThrewText(c)

\* Solver::Solver / IncSolver::IncSolver
InitState(k, clist) ==
    [blocks |-> [b \in BlockIds |->
                   IF b \in Vars THEN MakeBlock({b}, [v \in Vars |-> 0])
                   ELSE NoBlock],
     bs |-> Vars,
     blockOf |-> [v \in Vars |-> v],
     offset |-> [v \in Vars |-> 0],
     active |-> [c \in 1..Len(clist) |-> FALSE],
     unsat |-> [c \in 1..Len(clist) |-> FALSE],
     inactive |-> IF k = "inc" THEN [c \in 1..Len(clist) |-> c] ELSE <<>>]

Init ==
    /\ kind \in {"batch", "inc"}
    /\ n = NumVars
    /\ cs \in ConstraintLists
    /\ desired \in {d \in [Vars -> 0..MaxPos] : \E v \in Vars : d[v] = 0}
    /\ weight \in [Vars -> 1..MaxWeight]
    /\ finalPosition = [v \in Vars |-> <<desired[v], 1>>]
    /\ st = InitState(kind, cs)
    /\ pc = "idle"
    /\ op = "none"
    /\ loc = NoLoc
    /\ ret = NoRet
    /\ calls = 0
    /\ moves = 0
    /\ lastSolve = NoneSolved
    /\ cl = NoCluster


\* --------------------------------------------------- IncSolver::mostViolated
\* the scan without the priority of equalities: an equality competes on its
\* slack like any other constraint
RECURSIVE ScanViolatedBySlackOnly(_, _, _, _, _)
ScanViolatedBySlackOnly(s, l, i, dp, minSlack) ==
    IF i > Len(l) THEN dp
    ELSE LET c == l[i]
             slack == Slack(s, c) IN
         IF minSlack = DBL_MAX \/ FracLess(slack, minSlack)
         THEN ScanViolatedBySlackOnly(s, l, i + 1, i, slack)
         ELSE ScanViolatedBySlackOnly(s, l, i + 1, dp, minSlack)

\* the scan of the list l from index i on: the index of the winner so far
\* (dp, 0 for none) and its slack (minSlack)
\* the scan that lets a later constraint of equal slack replace the winner
RECURSIVE ScanViolatedLastOfTies(_, _, _, _, _)
ScanViolatedLastOfTies(s, l, i, dp, minSlack) ==
    IF i > Len(l) THEN dp
    ELSE LET c == l[i]
             slack == Slack(s, c) IN
         IF cs[c].equality THEN i
         ELSE IF minSlack = DBL_MAX \/ FracLeq(slack, minSlack)
              THEN ScanViolatedLastOfTies(s, l, i + 1, i, slack)
              ELSE ScanViolatedLastOfTies(s, l, i + 1, dp, minSlack)

RECURSIVE ScanViolated(_, _, _, _, _)
ScanViolated(s, l, i, dp, minSlack) ==
    IF i > Len(l) THEN dp
    ELSE LET c == l[i]
             slack == Slack(s, c) IN
         IF cs[c].equality THEN i
         ELSE IF minSlack = DBL_MAX \/ FracLess(slack, minSlack)
              THEN ScanViolated(s, l, i + 1, i, slack)
              ELSE ScanViolated(s, l, i + 1, dp, minSlack)

DeletePoint(s) == ScanViolated(s, s.inactive, 1, 0, DBL_MAX)

\* the constraint mostViolated returns, NullC for an empty list
MostViolated(s) ==
    IF DeletePoint(s) = 0 THEN NullC ELSE s.inactive[DeletePoint(s)]

\* whether mostViolated takes the winner out of the list
Removes(s) ==
    LET v == MostViolated(s) IN
    /\ v # NullC
    /\ \/ (Violated(s, v) /\ ~s.active[v])
       \/ cs[v].equality

\* mostViolated taking its winner out of the list whatever its slack
AfterMostViolatedAlwaysRemoves(s) ==
    LET l == s.inactive
        dp == DeletePoint(s) IN
    IF dp # 0
    THEN [s EXCEPT !.inactive =
            [i \in 1..(Len(l) - 1) |-> IF i = dp THEN l[Len(l)] ELSE l[i]]]
    ELSE s

\* the list after mostViolated: the last element moves over the delete point
AfterMostViolated(s) ==
    LET l == s.inactive
        dp == DeletePoint(s) IN
    IF Removes(s)
    THEN [s EXCEPT !.inactive =
            [i \in 1..(Len(l) - 1) |-> IF i = dp THEN l[Len(l)] ELSE l[i]]]
    ELSE s

\* the loop condition of IncSolver::satisfy for the constraint v
LoopContinues(s, v) ==
    /\ v # NullC
    /\ \/ cs[v].equality
       \/ (Violated(s, v) /\ ~s.active[v])

\* the loop body that activates a constraint inside a block without looking
\* for a cycle or splitting first
LoopBodyNoSplitFirst(s, v) ==
    LET lb == s.blockOf[cs[v].left]
        rb == s.blockOf[cs[v].right] IN
    IF lb # rb THEN Cleanup(Merge(s, v))
    ELSE Cleanup([s EXCEPT !.active[v] = TRUE])

\* the loop body that forgets to give the block merged over v after a split
\* back to the block set
LoopBodyMergedNotInserted(s, v) ==
    LET lb == s.blockOf[cs[v].left]
        rb == s.blockOf[cs[v].right] IN
    IF lb # rb THEN Cleanup(Merge(s, v))
    ELSE IF IsActiveDirectedPathBetween(s, cs[v].right, cs[v].left)
    THEN [s EXCEPT !.unsat[v] = TRUE]
    ELSE LET sc == SplitBetweenOn(s, cs[v].left, cs[v].right) IN
         IF sc = NullC THEN [s EXCEPT !.unsat[v] = TRUE]
         ELSE LET t0 == SplitBetween(s, cs[v].left, cs[v].right)
                  t == [t0 EXCEPT !.inactive = Append(t0.inactive, sc)]
                  nl == t.blockOf[cs[sc].left]
                  nr == t.blockOf[cs[sc].right]
              IN IF Slack(t, v)[1] >= 0
                 THEN Cleanup(Insert(Insert(
                        [t EXCEPT !.inactive = Append(t.inactive, v)], nl), nr))
                 ELSE Cleanup(Merge(t, v))

\* the loop body whose merge leaves the absorbed block undeleted
LoopBodyKeepsAbsorbed(s, v) ==
    LET lb == s.blockOf[cs[v].left]
        rb == s.blockOf[cs[v].right] IN
    IF lb # rb THEN Cleanup([Merge(s, v) EXCEPT !.blocks[rb].deleted = FALSE])
    ELSE IF IsActiveDirectedPathBetween(s, cs[v].right, cs[v].left)
    THEN [s EXCEPT !.unsat[v] = TRUE]
    ELSE LET sc == SplitBetweenOn(s, cs[v].left, cs[v].right) IN
         IF sc = NullC THEN [s EXCEPT !.unsat[v] = TRUE]
         ELSE LET t0 == SplitBetween(s, cs[v].left, cs[v].right)
                  t == [t0 EXCEPT !.inactive = Append(t0.inactive, sc)]
                  nl == t.blockOf[cs[sc].left]
                  nr == t.blockOf[cs[sc].right]
              IN IF Slack(t, v)[1] >= 0
                 THEN Cleanup(Insert(Insert(
                        [t EXCEPT !.inactive = Append(t.inactive, v)], nl), nr))
                 ELSE LET u == Merge(t, v) IN
                      Cleanup(Insert(u, u.blockOf[cs[v].left]))

\* the loop body that does not queue the constraint it split at
LoopBodyDropsSplitConstraint(s, v) ==
    LET lb == s.blockOf[cs[v].left]
        rb == s.blockOf[cs[v].right] IN
    IF lb # rb THEN Cleanup(Merge(s, v))
    ELSE IF IsActiveDirectedPathBetween(s, cs[v].right, cs[v].left)
    THEN [s EXCEPT !.unsat[v] = TRUE]
    ELSE LET sc == SplitBetweenOn(s, cs[v].left, cs[v].right) IN
         IF sc = NullC THEN [s EXCEPT !.unsat[v] = TRUE]
         ELSE LET t == SplitBetween(s, cs[v].left, cs[v].right)
                  nl == t.blockOf[cs[sc].left]
                  nr == t.blockOf[cs[sc].right]
              IN IF Slack(t, v)[1] >= 0
                 THEN Cleanup(Insert(Insert(
                        [t EXCEPT !.inactive = Append(t.inactive, v)], nl), nr))
                 ELSE LET u == Merge(t, v) IN
                      Cleanup(Insert(u, u.blockOf[cs[v].left]))

\* the loop body that puts a constraint it found cyclic back in the list
LoopBodyRequeuesCyclic(s, v) ==
    LET lb == s.blockOf[cs[v].left]
        rb == s.blockOf[cs[v].right] IN
    IF lb # rb THEN Cleanup(Merge(s, v))
    ELSE IF IsActiveDirectedPathBetween(s, cs[v].right, cs[v].left)
    THEN [s EXCEPT !.unsat[v] = TRUE, !.inactive = Append(s.inactive, v)]
    ELSE LET sc == SplitBetweenOn(s, cs[v].left, cs[v].right) IN
         IF sc = NullC THEN [s EXCEPT !.unsat[v] = TRUE]
         ELSE LET t0 == SplitBetween(s, cs[v].left, cs[v].right)
                  t == [t0 EXCEPT !.inactive = Append(t0.inactive, sc)]
                  nl == t.blockOf[cs[sc].left]
                  nr == t.blockOf[cs[sc].right]
              IN IF Slack(t, v)[1] >= 0
                 THEN Cleanup(Insert(Insert(
                        [t EXCEPT !.inactive = Append(t.inactive, v)], nl), nr))
                 ELSE LET u == Merge(t, v) IN
                      Cleanup(Insert(u, u.blockOf[cs[v].left]))

\* the loop body that puts a constraint it merged over back in the list
LoopBodyRequeuesMerged(s, v) ==
    LET lb == s.blockOf[cs[v].left]
        rb == s.blockOf[cs[v].right] IN
    IF lb # rb
    THEN LET u == Merge(s, v) IN
         Cleanup([u EXCEPT !.inactive = Append(u.inactive, v)])
    ELSE IF IsActiveDirectedPathBetween(s, cs[v].right, cs[v].left)
    THEN [s EXCEPT !.unsat[v] = TRUE]
    ELSE LET sc == SplitBetweenOn(s, cs[v].left, cs[v].right) IN
         IF sc = NullC THEN [s EXCEPT !.unsat[v] = TRUE]
         ELSE LET t0 == SplitBetween(s, cs[v].left, cs[v].right)
                  t == [t0 EXCEPT !.inactive = Append(t0.inactive, sc)]
                  nl == t.blockOf[cs[sc].left]
                  nr == t.blockOf[cs[sc].right]
              IN IF Slack(t, v)[1] >= 0
                 THEN Cleanup(Insert(Insert(
                        [t EXCEPT !.inactive = Append(t.inactive, v)], nl), nr))
                 ELSE LET u == Merge(t, v) IN
                      Cleanup(Insert(u, u.blockOf[cs[v].left]))

\* one pass of the body of the merge loop of IncSolver::satisfy, for v
LoopBody(s, v) ==
    LET lb == s.blockOf[cs[v].left]
        rb == s.blockOf[cs[v].right] IN
    IF lb # rb THEN Cleanup(Merge(s, v))
    ELSE IF IsActiveDirectedPathBetween(s, cs[v].right, cs[v].left)
    THEN [s EXCEPT !.unsat[v] = TRUE]
    ELSE LET sc == SplitBetweenOn(s, cs[v].left, cs[v].right) IN
         IF sc = NullC THEN [s EXCEPT !.unsat[v] = TRUE]
         ELSE LET t0 == SplitBetween(s, cs[v].left, cs[v].right)
                  t == [t0 EXCEPT !.inactive = Append(t0.inactive, sc)]
                  nl == t.blockOf[cs[sc].left]
                  nr == t.blockOf[cs[sc].right]
              IN IF Slack(t, v)[1] >= 0
                 THEN Cleanup(Insert(Insert(
                        [t EXCEPT !.inactive = Append(t.inactive, v)], nl), nr))
                 ELSE LET u == Merge(t, v) IN
                      Cleanup(Insert(u, u.blockOf[cs[v].left]))


\* ---------------------------------------------------------------- actions
Same == UNCHANGED <<kind, n, cs, desired, weight, cl>>
Keep == Same /\ UNCHANGED lastSolve

\* the record of a solve that returned the positions f: whether a solve on
\* these inputs had returned before, and whether the solver was built anew
\* between the two
Solved(f) ==
    [valid |-> TRUE, final |-> f, again |-> lastSolve.valid,
     rebuilt |-> lastSolve.rebuilt]

\* the caller builds a new solver, of the same kind, from new variables and
\* constraints of the same values (no flag of the old ones is carried over)
Rebuild ==
    /\ pc = "idle" /\ calls < MaxCalls
    /\ lastSolve.valid /\ ~lastSolve.rebuilt
    /\ st' = InitState(kind, cs)
    /\ finalPosition' = [v \in Vars |-> <<desired[v], 1>>]
    /\ op' = "none"
    /\ ret' = NoRet
    /\ lastSolve' = [lastSolve EXCEPT !.rebuilt = TRUE]
    /\ Same /\ UNCHANGED <<pc, loc, calls, moves>>

\* what follows a satisfy that returned val: the caller of a plain satisfy
\* gets val; Solver::solve goes on to refine; IncSolver::solve reads the cost
AfterSatisfy(s, val) ==
    IF op = "satisfy"
    THEN /\ pc' = "idle"
         /\ ret' = Returned(val)
         /\ loc' = NoLoc
    ELSE IF kind = "batch"
    THEN /\ pc' = "r_pass"
         /\ ret' = ret
         /\ loc' = [NoLoc EXCEPT !.maxtries = MaxTries]
    ELSE /\ pc' = "s_loop"
         /\ ret' = ret
         /\ loc' = [NoLoc EXCEPT
                      !.phase = IF loc.phase < SatCap THEN loc.phase + 1 ELSE SatCap,
                      !.lastcost = IF loc.phase = 0 THEN DBL_MAX ELSE loc.cost,
                      !.cost = Cost(s)]

\* the end of satisfy without the verification
FinishSatisfyUnverified(s) ==
    /\ finalPosition' = CopyResult(s)
    /\ AfterSatisfy(s, AnyActive(s))

\* the end of satisfy without copyResult()
FinishSatisfyNoCopy(s) ==
    IF FirstViolated(s) # NullC
    THEN /\ pc' = "idle"
         /\ ret' \in Thrown(kind, FirstViolated(s))
         /\ loc' = NoLoc
         /\ finalPosition' = finalPosition
    ELSE /\ finalPosition' = finalPosition
         /\ AfterSatisfy(s, AnyActive(s))

\* the verification that ends satisfy: throw on the first unsatisfied
\* constraint, else copy the result and return whether a constraint is active
FinishSatisfy(s) ==
    IF FirstViolated(s) # NullC
    THEN /\ pc' = "idle"
         /\ ret' \in Thrown(kind, FirstViolated(s))
         /\ loc' = NoLoc
         /\ finalPosition' = finalPosition
    ELSE /\ finalPosition' = CopyResult(s)
         /\ AfterSatisfy(s, AnyActive(s))

\* entry of IncSolver::satisfy: splitBlocks() starts with moveBlocks()
RECURSIVE MoveBlocks(_, _)
MoveBlocks(s, B) ==
    IF B = {} THEN s
    ELSE LET b == CHOOSE x \in B : TRUE IN
         MoveBlocks(UpdateWeightedPosition(s, b), B \ {b})

EnterIncSatisfy ==
    /\ st' = MoveBlocks(st, st.bs)
    /\ pc' = "i_split"
    /\ loc' = [loc EXCEPT !.pending = st.bs, !.splitCnt = 0]

\* the caller changes the desired position of one variable
SetDesired ==
    /\ pc = "idle"
    /\ kind = "inc"
    /\ calls > 0
    /\ moves < MaxMoves
    /\ \E v \in Vars, p \in 0..MaxPos :
          /\ p # desired[v]
          /\ desired' = [desired EXCEPT ![v] = p]
    /\ moves' = moves + 1
    /\ lastSolve' = NoneSolved
    /\ UNCHANGED <<kind, n, cs, weight, finalPosition, st, pc, op, loc, ret,
                   calls, cl>>

\* Solver::satisfy() is called
CallBatchSatisfy ==
    /\ pc = "idle" /\ kind = "batch" /\ calls < MaxCalls
    /\ op' = "satisfy"
    /\ pc' = "b_scan"
    /\ loc' = [NoLoc EXCEPT !.order = TotalOrder, !.i = 1]
    /\ ret' = NoRet
    /\ calls' = calls + 1
    /\ Keep /\ UNCHANGED <<finalPosition, st, moves>>

\* Solver::solve() is called
CallBatchSolve ==
    /\ pc = "idle" /\ kind = "batch" /\ calls < MaxCalls
    /\ op' = "solve"
    /\ pc' = "b_scan"
    /\ loc' = [NoLoc EXCEPT !.order = TotalOrder, !.i = 1]
    /\ ret' = NoRet
    /\ calls' = calls + 1
    /\ Keep /\ UNCHANGED <<finalPosition, st, moves>>

\* Solver::refine() is called
CallRefine ==
    /\ pc = "idle" /\ kind = "batch" /\ calls < MaxCalls
    /\ op' = "refine"
    /\ pc' = "r_pass"
    /\ loc' = [NoLoc EXCEPT !.maxtries = MaxTries]
    /\ ret' = NoRet
    /\ calls' = calls + 1
    /\ Keep /\ UNCHANGED <<finalPosition, st, moves>>

\* a scan that stops before the last variable of the order
BatchScanSkipsLast ==
    /\ pc = "b_scan"
    /\ loc.i <= Len(loc.order)
    /\ LET v == loc.order[loc.i] IN
       st' = IF loc.i < Len(loc.order) /\ ~st.blocks[st.blockOf[v]].deleted
             THEN MergeLeft(st, st.blockOf[v])
             ELSE st
    /\ loc' = [loc EXCEPT !.i = loc.i + 1]
    /\ Keep /\ UNCHANGED <<finalPosition, pc, op, ret, calls, moves>>

\* Solver::satisfy(): the next variable of the total order is merged left
BatchScan ==
    /\ pc = "b_scan"
    /\ loc.i <= Len(loc.order)
    /\ LET v == loc.order[loc.i] IN
       st' = IF ~st.blocks[st.blockOf[v]].deleted
             THEN MergeLeft(st, st.blockOf[v])
             ELSE st
    /\ loc' = [loc EXCEPT !.i = loc.i + 1]
    /\ Keep /\ UNCHANGED <<finalPosition, pc, op, ret, calls, moves>>

\* Solver::satisfy(): cleanup, verification, copyResult
BatchSatisfyEnd ==
    /\ pc = "b_scan"
    /\ loc.i > Len(loc.order)
    /\ st' = Cleanup(st)
    /\ FinishSatisfy(Cleanup(st))
    /\ Keep /\ UNCHANGED <<op, calls, moves>>

\* a pass that does not restart after its split
RefinePassNoRestart ==
    /\ pc = "r_pass"
    /\ ~loc.solved /\ loc.maxtries > 0
    /\ LET cand == {b \in st.bs : Splittable(st, FindMinLM(st, b))} IN
       IF cand = {}
       THEN /\ st' = st
            /\ loc' = [loc EXCEPT !.solved = TRUE, !.maxtries = loc.maxtries - 1]
       ELSE \E b \in cand :
              /\ st' = Cleanup(BlocksSplit(st, b, FindMinLM(st, b)))
              /\ loc' = [loc EXCEPT !.solved = TRUE,
                                    !.maxtries = loc.maxtries - 1]
    /\ Keep /\ UNCHANGED <<finalPosition, pc, op, ret, calls, moves>>

\* a pass that does not count down maxtries when it splits
RefinePassNoCountdown ==
    /\ pc = "r_pass"
    /\ ~loc.solved /\ loc.maxtries > 0
    /\ LET cand == {b \in st.bs : Splittable(st, FindMinLM(st, b))} IN
       IF cand = {}
       THEN /\ st' = st
            /\ loc' = [loc EXCEPT !.solved = TRUE, !.maxtries = loc.maxtries - 1]
       ELSE \E b \in cand :
              /\ st' = Cleanup(BlocksSplit(st, b, FindMinLM(st, b)))
              /\ loc' = loc
    /\ Keep /\ UNCHANGED <<finalPosition, pc, op, ret, calls, moves>>

\* Solver::refine(): one pass of the outer loop
RefinePass ==
    /\ pc = "r_pass"
    /\ ~loc.solved /\ loc.maxtries > 0
    /\ LET cand == {b \in st.bs : Splittable(st, FindMinLM(st, b))} IN
       IF cand = {}
       THEN /\ st' = st
            /\ loc' = [loc EXCEPT !.solved = TRUE, !.maxtries = loc.maxtries - 1]
       ELSE \E b \in cand :
              /\ st' = Cleanup(BlocksSplit(st, b, FindMinLM(st, b)))
              /\ loc' = [loc EXCEPT !.maxtries = loc.maxtries - 1]
    /\ Keep /\ UNCHANGED <<finalPosition, pc, op, ret, calls, moves>>

\* Solver::solve() without the copyResult() that follows refine()
RefineEndNoCopy ==
    /\ pc = "r_pass"
    /\ loc.solved \/ loc.maxtries = 0
    /\ pc' = "idle"
    /\ loc' = NoLoc
    /\ finalPosition' = finalPosition
    /\ IF FirstViolated(st) # NullC
       THEN /\ ret' = Threw(FirstViolated(st))
            /\ lastSolve' = lastSolve
       ELSE IF op = "solve"
       THEN /\ ret' = Returned(Cardinality(st.bs) # n)
            /\ lastSolve' = Solved(finalPosition)
       ELSE /\ ret' = Returned(FALSE)
            /\ lastSolve' = lastSolve
    /\ Same /\ UNCHANGED <<st, op, calls, moves>>

\* Solver::refine(): the verification after the loop; Solver::solve() then
\* copies the result and returns whether some block was merged
RefineEnd ==
    /\ pc = "r_pass"
    /\ loc.solved \/ loc.maxtries = 0
    /\ pc' = "idle"
    /\ loc' = NoLoc
    /\ IF FirstViolated(st) # NullC
       THEN /\ ret' = Threw(FirstViolated(st))
            /\ finalPosition' = finalPosition
            /\ lastSolve' = lastSolve
       ELSE IF op = "solve"
       THEN /\ ret' = Returned(Cardinality(st.bs) # n)
            /\ finalPosition' = CopyResult(st)
            /\ lastSolve' = Solved(CopyResult(st))
       ELSE /\ ret' = Returned(FALSE)
            /\ finalPosition' = finalPosition
            /\ lastSolve' = lastSolve
    /\ Same /\ UNCHANGED <<st, op, calls, moves>>

\* IncSolver::satisfy() is called
CallIncSatisfy ==
    /\ pc = "idle" /\ kind = "inc" /\ calls < MaxCalls
    /\ op' = "satisfy"
    /\ ret' = NoRet
    /\ calls' = calls + 1
    /\ EnterIncSatisfy
    /\ Keep /\ UNCHANGED <<finalPosition, moves>>

\* IncSolver::solve() is called
CallIncSolve ==
    /\ pc = "idle" /\ kind = "inc" /\ calls < MaxCalls
    /\ op' = "solve"
    /\ ret' = NoRet
    /\ calls' = calls + 1
    /\ EnterIncSatisfy
    /\ Keep /\ UNCHANGED <<finalPosition, moves>>

\* a split that does not put the freed constraint on the inactive list
SplitBlocksStepDropsConstraint ==
    /\ pc = "i_split"
    /\ \E b \in loc.pending :
         LET v == FindMinLM(st, b)
             t == Split(st, v)
             l == t.blockOf[cs[v].left]
             r == t.blockOf[cs[v].right]
         IN /\ Splittable(st, v)
            /\ st' = [t EXCEPT !.bs = t.bs \cup {l, r},
                               !.blocks[b].deleted = TRUE]
            /\ \E later \in SUBSET {l, r} :
                 loc' = [loc EXCEPT
                           !.pending = (loc.pending \ {b}) \cup later,
                           !.splitCnt = loc.splitCnt + 1]
    /\ Keep /\ UNCHANGED <<finalPosition, pc, op, ret, calls, moves>>

\* a split that does not mark the block it split as deleted
SplitBlocksStepKeepsBlock ==
    /\ pc = "i_split"
    /\ \E b \in loc.pending :
         LET v == FindMinLM(st, b)
             t == Split(st, v)
             l == t.blockOf[cs[v].left]
             r == t.blockOf[cs[v].right]
         IN /\ Splittable(st, v)
            /\ st' = [t EXCEPT !.bs = t.bs \cup {l, r},
                               !.inactive = Append(t.inactive, v)]
            /\ \E later \in SUBSET {l, r} :
                 loc' = [loc EXCEPT
                           !.pending = (loc.pending \ {b}) \cup later,
                           !.splitCnt = loc.splitCnt + 1]
    /\ Keep /\ UNCHANGED <<finalPosition, pc, op, ret, calls, moves>>

\* a split whose halves are not put into the block set
SplitBlocksStepHalvesNotInserted ==
    /\ pc = "i_split"
    /\ \E b \in loc.pending :
         LET v == FindMinLM(st, b)
             t == Split(st, v)
         IN /\ Splittable(st, v)
            /\ st' = [t EXCEPT !.blocks[b].deleted = TRUE,
                               !.inactive = Append(t.inactive, v)]
            /\ loc' = [loc EXCEPT !.pending = loc.pending \ {b},
                                  !.splitCnt = loc.splitCnt + 1]
    /\ Keep /\ UNCHANGED <<finalPosition, pc, op, ret, calls, moves>>

\* IncSolver::splitBlocks(): the iteration reaches a block to split (a block
\* it leaves intact is passed without effect); a block inserted during the
\* iteration is met later or not, as its address falls
SplitBlocksStep ==
    /\ pc = "i_split"
    /\ \E b \in loc.pending :
         LET v == FindMinLM(st, b)
             t == Split(st, v)
             l == t.blockOf[cs[v].left]
             r == t.blockOf[cs[v].right]
         IN /\ Splittable(st, v)
            /\ st' = [t EXCEPT !.bs = t.bs \cup {l, r},
                               !.blocks[b].deleted = TRUE,
                               !.inactive = Append(t.inactive, v)]
            /\ \E later \in SUBSET {l, r} :
                 loc' = [loc EXCEPT
                           !.pending = (loc.pending \ {b}) \cup later,
                           !.splitCnt = loc.splitCnt + 1]
    /\ Keep /\ UNCHANGED <<finalPosition, pc, op, ret, calls, moves>>

\* IncSolver::splitBlocks(): no block is left to split; cleanup
SplitBlocksEnd ==
    /\ pc = "i_split"
    /\ \A b \in loc.pending : ~Splittable(st, FindMinLM(st, b))
    /\ st' = Cleanup(st)
    /\ pc' = "i_loop"
    /\ loc' = [loc EXCEPT !.pending = {}]
    /\ Keep /\ UNCHANGED <<finalPosition, op, ret, calls, moves>>

\* IncSolver::satisfy(): one iteration of the merge loop
MergeLoopStep ==
    /\ pc = "i_loop"
    /\ \A x \in Vars : Abs(st.offset[x]) <= MaxOffset
    /\ LoopContinues(st, MostViolated(st))
    /\ st' = LoopBody(AfterMostViolated(st), MostViolated(st))
    /\ Keep /\ UNCHANGED <<finalPosition, pc, op, loc, ret, calls, moves>>

\* IncSolver::satisfy(): the loop ends; cleanup, verification, copyResult
IncSatisfyEnd ==
    /\ pc = "i_loop"
    /\ ~LoopContinues(st, MostViolated(st))
    /\ st' = Cleanup(AfterMostViolated(st))
    /\ FinishSatisfy(Cleanup(AfterMostViolated(st)))
    /\ Keep /\ UNCHANGED <<op, calls, moves>>

\* IncSolver::solve(): the cost changed, satisfy() is called again
SolveAgain ==
    /\ pc = "s_loop"
    /\ CostChanged(loc.lastcost, loc.cost)
    /\ EnterIncSatisfy
    /\ Keep /\ UNCHANGED <<finalPosition, op, ret, calls, moves>>

\* IncSolver::solve() comparing the block count with the number of constraints
SolveEndCountsConstraints ==
    /\ pc = "s_loop"
    /\ ~CostChanged(loc.lastcost, loc.cost)
    /\ finalPosition' = CopyResult(st)
    /\ ret' = Returned(Cardinality(st.bs) # Len(cs))
    /\ pc' = "idle"
    /\ loc' = NoLoc
    /\ lastSolve' = Solved(CopyResult(st))
    /\ Same /\ UNCHANGED <<st, op, calls, moves>>

\* IncSolver::solve(): the cost settled; copyResult and return
SolveEnd ==
    /\ pc = "s_loop"
    /\ ~CostChanged(loc.lastcost, loc.cost)
    /\ finalPosition' = CopyResult(st)
    /\ ret' = Returned(Cardinality(st.bs) # n)
    /\ pc' = "idle"
    /\ loc' = NoLoc
    /\ lastSolve' = Solved(CopyResult(st))
    /\ Same /\ UNCHANGED <<st, op, calls, moves>>

Next ==
    \/ Rebuild
    \/ SetDesired
    \/ CallBatchSatisfy
    \/ CallBatchSolve
    \/ CallRefine
    \/ BatchScan
    \/ BatchSatisfyEnd
    \/ RefinePass
    \/ RefineEnd
    \/ CallIncSatisfy
    \/ CallIncSolve
    \/ SplitBlocksStep
    \/ SplitBlocksEnd
    \/ MergeLoopStep
    \/ IncSatisfyEnd
    \/ SolveAgain
    \/ SolveEnd

Spec == Init /\ [][Next]_vars

\* --------------------------------------------- the incremental solver alone
InitInc == Init /\ kind = "inc"

\* the steps of an operation that is running
RunInc ==
    \/ SplitBlocksStep
    \/ SplitBlocksEnd
    \/ MergeLoopStep
    \/ IncSatisfyEnd
    \/ SolveAgain
    \/ SolveEnd

NextInc ==
    \/ SetDesired
    \/ CallIncSatisfy
    \/ CallIncSolve
    \/ RunInc

\* the states in which a step of RunInc can be taken: an operation is running
\* (each of its positions has a step, and every step changes the state)
RunIncEnabled == pc # "idle"

\* weak fairness of RunInc, with its enabling condition written out: an
\* operation that was called runs on until it returns or throws
RunIncFair == []<>(~RunIncEnabled) \/ []<><<RunInc>>_vars

SpecInc == InitInc /\ [][NextInc]_vars /\ RunIncFair

\* --------------------------------- the incremental solver on a drag instance
\* x2 - x1 >= 2, x3 - x1 >= 2, x2 - x3 >= 1 and x3 - x4 >= 1, with a heavy
\* fourth variable: where x4 desires to be to the right, it drags x3 along
\* once the two are merged, so that a block split between x1 and x2 comes
\* apart far enough to satisfy x3 - x1 >= 2
DragVars == NumVars + 1
DragCs ==
    <<[left |-> 1, right |-> 2, gap |-> 2, equality |-> FALSE],
      [left |-> 1, right |-> 3, gap |-> 2, equality |-> FALSE],
      [left |-> 3, right |-> 2, gap |-> 1, equality |-> FALSE],
      [left |-> DragVars, right |-> 3, gap |-> 1, equality |-> FALSE]>>

InitDrag ==
    /\ kind = "inc"
    /\ n = DragVars
    /\ cs = DragCs
    /\ desired \in [Vars -> 0..MaxPos]
    /\ weight = [v \in Vars |-> IF v = DragVars THEN HeavyWeight ELSE 1]
    /\ finalPosition = [v \in Vars |-> <<desired[v], 1>>]
    /\ st = InitState(kind, cs)
    /\ pc = "idle"
    /\ op = "none"
    /\ loc = NoLoc
    /\ ret = NoRet
    /\ calls = 0
    /\ moves = 0
    /\ lastSolve = NoneSolved
    /\ cl = NoCluster

SpecDrag == InitDrag /\ [][NextInc]_vars

\* the incremental solver on every input of the bounds and on the instance
\* above, each called operation running on until it returns or throws
InitIncDrag == InitInc \/ InitDrag

SpecIncDrag == InitIncDrag /\ [][NextInc]_vars /\ RunIncFair

\* ------------------------------------------------- the batch solver alone
\* a hub (variable 1) with MaxTries + 1 leaves to its right, all desiring the
\* same place, and one more variable to the hub's right that desires to be
\* far to the left: satisfy merges all of them into one block, and refine has a
\* split to make for every leaf
StarVars == MaxTries + 3

StarCs ==
    [c \in 1..(StarVars - 1) |->
       [left |-> 1, right |-> c + 1, gap |-> 1, equality |-> FALSE]]

StarDesired == [v \in 1..StarVars |-> IF v = StarVars THEN 0 ELSE 2]

InitStar ==
    /\ kind = "batch"
    /\ n = StarVars
    /\ cs = StarCs
    /\ desired = StarDesired
    /\ weight = [v \in Vars |-> 1]
    /\ finalPosition = [v \in Vars |-> <<desired[v], 1>>]
    /\ st = InitState(kind, cs)
    /\ pc = "idle"
    /\ op = "none"
    /\ loc = NoLoc
    /\ ret = NoRet
    /\ calls = 0
    /\ moves = 0
    /\ lastSolve = NoneSolved
    /\ cl = NoCluster

InitBatch == (Init /\ kind = "batch") \/ InitStar

NextBatch ==
    \/ CallBatchSatisfy
    \/ CallBatchSolve
    \/ CallRefine
    \/ BatchScan
    \/ BatchSatisfyEnd
    \/ RefinePass
    \/ RefineEnd

SpecBatch == InitBatch /\ [][NextBatch]_vars

\* the steps of a batch operation that is running
RunBatch == BatchScan \/ BatchSatisfyEnd \/ RefinePass \/ RefineEnd

\* the states in which a step of RunBatch can be taken: an operation is
\* running (each of its positions has a step, and every step changes the state)
RunBatchEnabled == pc # "idle"

\* weak fairness of RunBatch, with its enabling condition written out: an
\* operation that was called runs on until it returns or throws
RunBatchFair == []<>(~RunBatchEnabled) \/ []<><<RunBatch>>_vars

SpecBatchFair == InitBatch /\ [][NextBatch]_vars /\ RunBatchFair

\* ------------------------------ Cluster::generateNonOverlapConstraints
\* A root cluster (0) with cl.clusters child clusters (1, 2, ...), each child
\* holding one node, the root holding one node or none.  A variable is named
\* by what it is and the cluster it belongs to.
Root == 0
Node(k) == <<"node", k>>
VMin(k) == <<"vMin", k>>
VMax(k) == <<"vMax", k>>

ChildrenOf(c, k) == IF k = Root THEN 1..c.clusters ELSE {}
NodesOf(c, k) == IF k = Root /\ ~c.node THEN {} ELSE {Node(k)}

\* the order in which the clusters come to generate their own constraints:
\* the recursion into the children comes first
ClusterOrder(c) == [j \in 1..(c.clusters + 1) |-> IF j <= c.clusters THEN j ELSE Root]
Current(c) == ClusterOrder(c)[c.at]

\* lvs: the nodes, the vMin of each child cluster, the cluster's own vMin, vMax
Lvs(c, k) ==
    NodesOf(c, k) \cup {VMin(j) : j \in ChildrenOf(c, k)} \cup {VMin(k), VMax(k)}

\* varClusterMap: the child cluster of a child's vMin
VarClusterMap(c, k) == [v \in {VMin(j) : j \in ChildrenOf(c, k)} |-> v[2]]

HAdjust(dim) == IF dim = "HORIZONTAL" THEN 1 ELSE 0

\* what generateXConstraints / generateYConstraints may emit over lvs:
\* separation constraints between two of the variables
Generated(c, k) ==
    {[left |-> l, right |-> r, gap |-> <<g, 1>>] :
        l \in Lvs(c, k), r \in Lvs(c, k), g \in 1..MaxSep} \ 
    {[left |-> l, right |-> l, gap |-> <<g, 1>>] :
        l \in Lvs(c, k), g \in 1..MaxSep}

GeneratedLists(c, k) ==
    UNION {[1..len -> Generated(c, k)] : len \in 0..MaxTmp}

\* cl->length / 2. - hAdjust
Outset(c, j) == Frac(c.length[j] - 2 * HAdjust(c.dim), 2)

\* the loop body over tmp_cs: an outgoing constraint of a child cluster is
\* remapped to the child's vMax, and the gap gives way to the child's extent
RemapLeft(c, k, co) ==
    LET f == VarClusterMap(c, k) IN
    IF co.left \in DOMAIN f
    THEN [co EXCEPT !.left = VMax(f[co.left]),
                    !.gap = FracSub(co.gap, Outset(c, f[co.left]))]
    ELSE co

RemapRight(c, k, co) ==
    LET f == VarClusterMap(c, k) IN
    IF co.right \in DOMAIN f
    THEN [co EXCEPT !.gap = FracSub(co.gap, Outset(c, f[co.right]))]
    ELSE co

\* the loop body that passes the constraint on as it is
RemapNone(c, k, co) == co

Remap(c, k, co) == RemapRight(c, k, RemapLeft(c, k, co))

\* the cluster trees: createVars has run, and each cluster's length is the
\* extent of its bounds in the dimension at hand
InitCluster ==
    /\ kind = "inc"
    /\ n = NumVars
    /\ cs = <<>>
    /\ desired = [v \in Vars |-> 0]
    /\ weight = [v \in Vars |-> 1]
    /\ finalPosition = [v \in Vars |-> <<desired[v], 1>>]
    /\ st = InitState(kind, cs)
    /\ pc = "idle"
    /\ op = "none"
    /\ loc = NoLoc
    /\ ret = NoRet
    /\ calls = 0
    /\ moves = 0
    /\ lastSolve = NoneSolved
    /\ \E d \in {"HORIZONTAL", "VERTICAL"}, k \in 0..MaxClusters, nd \in BOOLEAN :
          /\ k > 0 \/ nd
          /\ \E len \in [1..k -> 0..MaxLength] :
                cl = [NoCluster EXCEPT !.dim = d, !.clusters = k, !.node = nd,
                                       !.length = len, !.stage = "call",
                                       !.at = 1]

SolverVars ==
    <<kind, n, cs, desired, weight, finalPosition, st, pc, op, loc, ret,
      calls, moves, lastSolve>>

\* lines 216-257: the cluster at hand has lvs and lrs filled in and calls the
\* generator, which leaves its constraints in tmp_cs
ClusterGenerate ==
    /\ cl.stage = "call"
    /\ \E tmp \in GeneratedLists(cl, Current(cl)) :
          /\ Len(cl.cs) + Len(tmp) <= MaxOut
          /\ cl' = [cl EXCEPT !.tmp_cs = tmp, !.i = 1, !.stage = "loop"]
    /\ UNCHANGED SolverVars

\* lines 258-278: one turn of the loop over tmp_cs; co points into tmp_cs, so
\* the constraint is changed where it is and then appended to cs (made keeps
\* what the generator had emitted, and the cluster that called it)
ClusterRemap ==
    /\ cl.stage = "loop"
    /\ cl.i <= Len(cl.tmp_cs)
    /\ LET co == Remap(cl, Current(cl), cl.tmp_cs[cl.i]) IN
       cl' = [cl EXCEPT !.tmp_cs[cl.i] = co,
                        !.cs = Append(cl.cs, co),
                        !.made = Append(cl.made, [co |-> cl.tmp_cs[cl.i],
                                                  by |-> Current(cl)]),
                        !.i = cl.i + 1]
    /\ UNCHANGED SolverVars

\* line 279: the loop is over, the call returns: to the parent, whose own
\* constraints follow those of its children, or to the caller
ClusterReturn ==
    /\ cl.stage = "loop"
    /\ cl.i > Len(cl.tmp_cs)
    /\ cl' = IF cl.at <= cl.clusters
             THEN [cl EXCEPT !.at = cl.at + 1, !.stage = "call",
                             !.tmp_cs = <<>>, !.i = 0]
             ELSE [cl EXCEPT !.stage = "done", !.tmp_cs = <<>>, !.i = 0]
    /\ UNCHANGED SolverVars

NextCluster == ClusterGenerate \/ ClusterRemap \/ ClusterReturn

SpecCluster == InitCluster /\ [][NextCluster]_vars


\* ------------------------------------------------------------ properties
ReturnedOk == pc = "idle" /\ ret.status = "ok"

LiveBlocks == {b \in st.bs : ~st.blocks[b].deleted}

\* C1: when satisfy, refine or solve of either solver returns normally, every
\* constraint has slack >= ZERO_UPPERBOUND or is marked unsatisfiable.
C1_SlackOrUnsatisfiable ==
    ReturnedOk => \A c \in CIdx : ~Violated(st, c) \/ st.unsat[c]

\* an operation returned normally with a constraint that was merged over and
\* one that is slack but not active
C1_Witness ==
    /\ ReturnedOk
    /\ \E c \in CIdx : st.active[c]
    /\ \E c \in CIdx : ~st.active[c] /\ Slack(st, c)[1] > 0

ThreeCycle ==
    cs = <<[left |-> 1, right |-> 2, gap |-> 1, equality |-> FALSE],
           [left |-> 2, right |-> 3, gap |-> 1, equality |-> FALSE],
           [left |-> 3, right |-> 1, gap |-> 1, equality |-> FALSE]>>

\* C2: on the cycle x2-x1>=1, x3-x2>=1, x1-x3>=1 IncSolver::solve completes
\* without an error, exactly one constraint ends marked unsatisfiable and the
\* other two have non-negative slack.
C2_CycleSolveCompletes ==
    (kind = "inc" /\ ThreeCycle /\ op = "solve" /\ pc = "idle")
      => /\ ret.status = "ok"
         /\ Cardinality({c \in CIdx : st.unsat[c]}) = 1
         /\ \A c \in CIdx : ~st.unsat[c] => Slack(st, c)[1] >= 0

\* C3: at every quiescent moment the live blocks of the block set partition
\* the variables, and each variable's block reference names its live block.
Quiescent == pc \in {"idle", "i_loop", "s_loop"}

C3_BlocksPartitionVars ==
    Quiescent =>
      /\ \A v \in Vars :
           /\ st.blockOf[v] \in LiveBlocks
           /\ v \in st.blocks[st.blockOf[v]].vars
           /\ \A b \in LiveBlocks : v \in st.blocks[b].vars => b = st.blockOf[v]
      /\ \A b \in st.bs : ~st.blocks[b].deleted /\ st.blocks[b].vars # {}

\* splitBlocks returned after splitting a block, a merged block remaining
C3_Witness ==
    /\ pc = "i_loop" /\ loc.splitCnt > 0
    /\ \E b \in LiveBlocks : Cardinality(st.blocks[b].vars) > 1

\* C4: in every live block the active constraints between its variables form
\* a spanning tree, and no active constraint joins two blocks.
C4_ActiveSpanningTree ==
    /\ \A b \in LiveBlocks :
         /\ Cardinality(ActiveIn(st, b)) = Cardinality(st.blocks[b].vars) - 1
         /\ \A v \in st.blocks[b].vars :
              Component(st, {v}, NullC) = st.blocks[b].vars
    /\ \A c \in CIdx :
         st.active[c] => st.blockOf[cs[c].left] = st.blockOf[cs[c].right]

\* after a split and a merge, a block with a constraint between two of its
\* variables that is not active
C4_Witness ==
    /\ loc.splitCnt > 0
    /\ \E c \in CIdx :
         /\ ~st.active[c]
         /\ st.blockOf[cs[c].left] = st.blockOf[cs[c].right]
         /\ st.blockOf[cs[c].left] \in LiveBlocks

C9_SolveReturnValue ==
    (ReturnedOk /\ op = "solve") =>
      /\ ret.value <=> \E b \in LiveBlocks : Cardinality(st.blocks[b].vars) > 1
      /\ ret.value <=> AnyActive(st)

\* solve returned true, and solve returned false with constraints present
C9_Witness ==
    /\ ReturnedOk /\ op = "solve" /\ ret.value
    /\ Cardinality(LiveBlocks) = 2

C9_WitnessFalse ==
    ReturnedOk /\ op = "solve" /\ ~ret.value /\ Len(cs) > 0

\* C10: when satisfy or solve returns normally every variable's finalPosition
\* is its position in the block partition that exists at return.
C10_FinalIsPosition ==
    (ReturnedOk /\ op \in {"satisfy", "solve"}) =>
      \A v \in Vars : finalPosition[v] = Position(st, v)

\* Solver::solve returned with a merged block and a constraint left slack,
\* the variables away from where they desire to be
C10_Witness ==
    /\ ReturnedOk /\ op = "solve" /\ kind = "batch"
    /\ \E b \in LiveBlocks : Cardinality(st.blocks[b].vars) = 2
    /\ \E c \in CIdx : ~st.active[c] /\ Slack(st, c)[1] > 0
    /\ \E v \in Vars : finalPosition[v] # <<desired[v], 1>>

\* C6: during one IncSolver::solve, the cost read after a satisfy call is at
\* most the cost read after the previous satisfy call.
C6_CostNonIncreasing ==
    (pc = "s_loop" /\ loc.lastcost # DBL_MAX) => FracLeq(loc.cost, loc.lastcost)

\* a satisfy call inside solve that lowered the cost
C6_Witness ==
    /\ pc = "s_loop" /\ loc.lastcost # DBL_MAX
    /\ FracLess(loc.cost, loc.lastcost)

SolveReturns ==
    pc # "idle" /\ pc' = "idle" /\ op = "solve" /\ ret'.status = "ok"

C7_WitnessSame ==
    /\ ReturnedOk /\ op = "solve" /\ kind = "inc"
    /\ lastSolve.again /\ ~lastSolve.rebuilt
    /\ \E c \in CIdx : ~st.active[c] /\ Slack(st, c)[1] > 0
    /\ \E b \in LiveBlocks : Cardinality(st.blocks[b].vars) > 1


\* the constraints on the inactive list
InactiveSet == {st.inactive[i] : i \in 1..Len(st.inactive)}

\* C11 as stated: between the operations of an IncSolver a constraint is on
\* the inactive list iff its active flag is false.
C11_InactiveListIsInactiveSet ==
    (kind = "inc" /\ pc = "idle") =>
      \A c \in CIdx : (c \in InactiveSet) <=> ~st.active[c]

\* C11, amended: between the operations of an IncSolver, and between the
\* iterations of its merge loop, a constraint is on the inactive list iff it
\* is neither active nor marked unsatisfiable, and it is on the list once; a
\* new IncSolver has every constraint on the list, none active, and every
\* variable in a block of its own.
C11_InactiveListButUnsatisfiable ==
    (kind = "inc" /\ Quiescent) =>
      /\ \A c \in CIdx :
           (c \in InactiveSet) <=> (~st.active[c] /\ ~st.unsat[c])
      /\ Cardinality(InactiveSet) = Len(st.inactive)
      /\ (calls = 0 =>
            /\ InactiveSet = CIdx
            /\ \A c \in CIdx : ~st.active[c]
            /\ \A v \in Vars : st.blocks[st.blockOf[v]].vars = {v})

\* an operation ended with one constraint active, one on the list and one
\* marked unsatisfiable
C11_Witness ==
    /\ kind = "inc" /\ pc = "idle" /\ calls > 0
    /\ \E c \in CIdx : st.active[c]
    /\ \E c \in CIdx : c \in InactiveSet
    /\ \E c \in CIdx : st.unsat[c]

\* C12: when the verification that ends satisfy or refine finds a constraint
\* with slack < ZERO_UPPERBOUND, the operation fails with an
\* UnsatisfiedConstraint error naming the first such constraint in input
\* order, and the final positions are what they were before.
C12_VerificationFailure ==
    [][(pc # "idle" /\ pc' = "idle" /\ ret'.status = "throw")
         => /\ ret'.type = "UnsatisfiedConstraint"
            /\ ret'.c = FirstViolated(st')
            /\ finalPosition' = finalPosition]_vars

\* the constraints can all hold at once
Satisfiable ==
    \E x \in [Vars -> 0..(NumVars * MaxGap)] :
      \A c \in CIdx :
        IF cs[c].equality
        THEN x[cs[c].right] - x[cs[c].left] = cs[c].gap
        ELSE x[cs[c].right] - x[cs[c].left] >= cs[c].gap

OutsetAt(k, v) ==
    IF v \in DOMAIN VarClusterMap(cl, k) THEN Outset(cl, v[2]) ELSE <<0, 1>>

\* C14 as stated: every constraint appended to cs has the left variable, the
\* right variable and the gap that the generator produced.
C14_ReachUnchanged ==
    \A i \in 1..Len(cl.cs) : cl.cs[i] = cl.made[i].co

\* C14: the constraints reach cs one for one and in the generator's order,
\* each with the right variable the generator produced; the left variable is
\* as produced unless it is the vMin of a child of the generating cluster,
\* and then it is that child's vMax; the gap is the one produced, less
\* length/2 - hAdjust of the child for each end that is a child's vMin.
C14_RemappedAtChildClusters ==
    /\ Len(cl.cs) = Len(cl.made)
    /\ \A i \in 1..Len(cl.cs) :
          LET g == cl.made[i].co
              k == cl.made[i].by
              o == cl.cs[i] IN
          /\ g \in Generated(cl, k)
          /\ o.right = g.right
          /\ o.left = IF g.left \in DOMAIN VarClusterMap(cl, k)
                      THEN VMax(g.left[2]) ELSE g.left
          /\ o.gap = FracSub(FracSub(g.gap, OutsetAt(k, g.left)),
                             OutsetAt(k, g.right))
          /\ (g.left \notin DOMAIN VarClusterMap(cl, k)
                /\ g.right \notin DOMAIN VarClusterMap(cl, k)) => o = g

\* the root has passed on a constraint between two child clusters, after a
\* child's own constraint, and another that touches no child cluster
C14_Witness ==
    /\ cl.stage = "done"
    /\ \E i, j, h \in 1..Len(cl.cs) :
          /\ cl.made[i].by = Root /\ cl.made[j].by = Root /\ cl.made[h].by # Root
          /\ cl.made[i].co.left \in DOMAIN VarClusterMap(cl, Root)
          /\ cl.made[i].co.right \in DOMAIN VarClusterMap(cl, Root)
          /\ cl.cs[i] # cl.made[i].co
          /\ cl.cs[j] = cl.made[j].co

\* the places of the equalities in the inactive list
EqualityPlaces == {i \in 1..Len(st.inactive) : cs[st.inactive[i]].equality}

\* C15: where IncSolver::satisfy calls mostViolated, it returns null iff the
\* inactive list is empty; with an equality in the list it returns the first
\* equality in list order; with none it returns a constraint of minimum
\* slack over the list, the earliest in list order among those.
C15_MostViolatedChoice ==
    (kind = "inc" /\ pc = "i_loop") =>
      LET l == st.inactive
          v == MostViolated(st) IN
      /\ (v = NullC) <=> (Len(l) = 0)
      /\ EqualityPlaces # {} => v = l[SetMin(EqualityPlaces)]
      /\ (Len(l) > 0 /\ EqualityPlaces = {}) =>
            \E i \in 1..Len(l) :
              /\ v = l[i]
              /\ \A j \in 1..Len(l) : FracLeq(Slack(st, v), Slack(st, l[j]))
              /\ \A j \in 1..(i - 1) : FracLess(Slack(st, v), Slack(st, l[j]))

\* mostViolated is called on a list without equalities in which two violated
\* constraints share the minimum slack, and returns the earlier one
C15_Witness ==
    /\ kind = "inc" /\ pc = "i_loop"
    /\ EqualityPlaces = {}
    /\ \E i, j \in 1..Len(st.inactive) :
          /\ i < j
          /\ MostViolated(st) = st.inactive[i]
          /\ Slack(st, st.inactive[i]) = Slack(st, st.inactive[j])
          /\ Violated(st, st.inactive[i])

\* how often the constraint c occurs in the list l
Occurrences(l, c) == Cardinality({i \in 1..Len(l) : l[i] = c})

\* C16: where IncSolver::satisfy calls mostViolated, the returned constraint
\* leaves the inactive list iff it is an equality or it is not active and has
\* slack < ZERO_UPPERBOUND; then one occurrence of it is gone, the last
\* element stands in its place, and every other element is where it was;
\* otherwise the list is as it was.  Nothing but the list changes.
C16_MostViolatedRemoval ==
    (kind = "inc" /\ pc = "i_loop") =>
      LET l == st.inactive
          v == MostViolated(st)
          t == AfterMostViolated(st)
          removes == v # NullC /\ (cs[v].equality
                                    \/ (~st.active[v] /\ Violated(st, v))) IN
      /\ t = [st EXCEPT !.inactive = t.inactive]
      /\ removes =>
            /\ Len(t.inactive) = Len(l) - 1
            /\ \A c \in CIdx :
                  Occurrences(t.inactive, c) =
                    Occurrences(l, c) - (IF c = v THEN 1 ELSE 0)
            /\ \E dp \in 1..Len(l) :
                  /\ l[dp] = v
                  /\ \A i \in 1..(Len(l) - 1) :
                        t.inactive[i] = IF i = dp THEN l[Len(l)] ELSE l[i]
      /\ ~removes => t.inactive = l

\* mostViolated takes out a constraint that is not the last of a list of three
C16_Witness ==
    /\ kind = "inc" /\ pc = "i_loop"
    /\ Len(st.inactive) = 3
    /\ Removes(st)
    /\ DeletePoint(st) < 3
    /\ AfterMostViolated(st).inactive[DeletePoint(st)] = st.inactive[3]

\* C17: the merge loop goes on exactly when the constraint v that
\* mostViolated returned is not null, is an equality or has
\* slack < ZERO_UPPERBOUND, and is not active; the body never runs for an
\* active constraint; the inactive list never contains an active constraint
\* nor the same constraint twice.
C17_LoopNeverProcessesActive ==
    /\ [](kind = "inc" =>
            /\ \A i \in 1..Len(st.inactive) : ~st.active[st.inactive[i]]
            /\ \A c \in CIdx : Occurrences(st.inactive, c) <= 1)
    /\ []((kind = "inc" /\ pc = "i_loop") =>
            LET v == MostViolated(st) IN
            LoopContinues(st, v) <=>
              ~(\/ v = NullC
                \/ (~cs[v].equality /\ ~Violated(st, v))
                \/ st.active[v]))
    /\ [][(pc = "i_loop" /\ pc' = "i_loop") =>
            LET v == MostViolated(st) IN
            /\ v # NullC
            /\ ~st.active[v]
            /\ cs[v].equality \/ Violated(st, v)]_vars
    /\ [][(pc = "i_loop" /\ pc' # "i_loop") =>
            LET v == MostViolated(st) IN
            \/ v = NullC
            \/ (~cs[v].equality /\ ~Violated(st, v))
            \/ st.active[v]]_vars

\* the loop body is about to run for an equality that is not violated, with
\* another constraint already active
C17_Witness ==
    /\ kind = "inc" /\ pc = "i_loop"
    /\ LoopContinues(st, MostViolated(st))
    /\ cs[MostViolated(st)].equality
    /\ ~Violated(st, MostViolated(st))
    /\ AnyActive(st)

\* the state in which the loop body of IncSolver::satisfy merges over v: as
\* mostViolated left it when v joins two blocks, after the split when v lay
\* inside one
BeforeMerge(v) ==
    LET s == AfterMostViolated(st) IN
    IF s.blockOf[cs[v].left] # s.blockOf[cs[v].right] THEN s
    ELSE SplitBetween(s, cs[v].left, cs[v].right)

\* C18: in every quiescent state an active constraint has both variables in
\* one block, with right.offset - left.offset = gap.  A pass of the merge
\* loop that makes v active leaves both variables of v in one live block of
\* the block set, every other block that held a variable of it deleted and
\* out of the set, and the difference of the offsets of any two variables
\* that shared a block before the merge as it was.
C18_ActiveTightAndInternal ==
    /\ [](Quiescent =>
            \A c \in CIdx :
              st.active[c] =>
                /\ st.blockOf[cs[c].left] = st.blockOf[cs[c].right]
                /\ st.offset[cs[c].right] - st.offset[cs[c].left] = cs[c].gap)
    /\ [][(pc = "i_loop" /\ pc' = "i_loop"
             /\ ~st.active[MostViolated(st)] /\ st'.active[MostViolated(st)]) =>
            LET v == MostViolated(st)
                pre == BeforeMerge(v)
                B == st'.blockOf[cs[v].left] IN
            /\ pre.blockOf[cs[v].left] # pre.blockOf[cs[v].right]
            /\ st'.blockOf[cs[v].right] = B
            /\ B \in st'.bs /\ ~st'.blocks[B].deleted
            /\ B \in {pre.blockOf[cs[v].left], pre.blockOf[cs[v].right]}
            /\ \A x \in st'.blocks[B].vars :
                  pre.blockOf[x] \in {pre.blockOf[cs[v].left],
                                      pre.blockOf[cs[v].right]}
            /\ \A X \in {pre.blockOf[cs[v].left], pre.blockOf[cs[v].right]} :
                  X # B => (st'.blocks[X].deleted /\ X \notin st'.bs)
            /\ \A x, y \in Vars :
                  pre.blockOf[x] = pre.blockOf[y] =>
                    st'.offset[y] - st'.offset[x] = pre.offset[y] - pre.offset[x]]_vars

\* an IncSolver call has returned with all variables in one block, two merges
\* made and a constraint between them left inactive
C18_Witness ==
    /\ kind = "inc" /\ ReturnedOk
    /\ Cardinality(LiveBlocks) = 1
    /\ Cardinality({c \in CIdx : st.active[c]}) = NumVars - 1
    /\ \E c \in CIdx : ~st.active[c]

\* the merge loop is about to run its body for a constraint inside one block,
\* with no active directed path from its right to its left variable and a
\* constraint for splitBetween to split at
InSplitBranch ==
    /\ kind = "inc" /\ pc = "i_loop"
    /\ LoopContinues(st, MostViolated(st))
    /\ LET v == MostViolated(st)
           s == AfterMostViolated(st) IN
       /\ s.blockOf[cs[v].left] = s.blockOf[cs[v].right]
       /\ ~IsActiveDirectedPathBetween(s, cs[v].right, cs[v].left)
       /\ SplitBetweenOn(s, cs[v].left, cs[v].right) # NullC

\* whether the split alone satisfies the constraint the body is run for
SplitSatisfies ==
    LET v == MostViolated(st)
        s == AfterMostViolated(st) IN
    Slack(SplitBetween(s, cs[v].left, cs[v].right), v)[1] >= 0

\* C19: a pass of the merge loop for a constraint v inside one block, with
\* no active directed path from v.right to v.left and a constraint c_split
\* returned by splitBetween, leaves c_split inactive and appended to the
\* inactive list; if the split satisfied v, v follows it on the list and stays
\* inactive, and the halves are two live blocks of the block set; if not, v is
\* active, off the list, with both variables in one live block of the block
\* set.  The block that was split is deleted and out of the block set.
C19_SplitBranch ==
    [][(InSplitBranch /\ pc' = "i_loop") =>
        LET v == MostViolated(st)
            s == AfterMostViolated(st)
            sc == SplitBetweenOn(s, cs[v].left, cs[v].right)
            b == s.blockOf[cs[v].left]
            L == st'.blockOf[cs[sc].left]
            R == st'.blockOf[cs[sc].right] IN
        /\ ~st'.active[sc]
        /\ st'.blocks[b].deleted /\ b \notin st'.bs
        /\ \A x \in Vars : st'.blockOf[x] # b
        /\ IF SplitSatisfies
           THEN /\ st'.inactive = s.inactive \o <<sc, v>>
                /\ ~st'.active[v]
                /\ L # R
                /\ {L, R} \subseteq st'.bs
                /\ ~st'.blocks[L].deleted /\ ~st'.blocks[R].deleted
                /\ st'.blockOf[cs[v].left] = L /\ st'.blockOf[cs[v].right] = R
           ELSE /\ st'.inactive = s.inactive \o <<sc>>
                /\ st'.active[v]
                /\ L = R
                /\ L \in st'.bs /\ ~st'.blocks[L].deleted
                /\ st'.blockOf[cs[v].left] = L /\ st'.blockOf[cs[v].right] = L]_vars

\* the body is about to split a block at a constraint and find the
\* constraint it ran for satisfied by the split alone
C19_Witness == InSplitBranch /\ SplitSatisfies

\* the body is about to split a block and merge the halves over the
\* constraint it ran for
C19_WitnessMerged == InSplitBranch /\ ~SplitSatisfies

\* the merge loop is about to run its body for a constraint inside one block
\* that has an active directed path from its right to its left variable
InCycleBranch ==
    /\ kind = "inc" /\ pc = "i_loop"
    /\ LoopContinues(st, MostViolated(st))
    /\ LET v == MostViolated(st)
           s == AfterMostViolated(st) IN
       /\ s.blockOf[cs[v].left] = s.blockOf[cs[v].right]
       /\ IsActiveDirectedPathBetween(s, cs[v].right, cs[v].left)

\* C20: a pass of the merge loop for a constraint v inside a block with an
\* active directed path from v.right to v.left marks v unsatisfiable and
\* leaves the blocks, the block set, the offsets and the active flags as they
\* were.  On one IncSolver a constraint marked unsatisfiable stays marked,
\* is not active and is not on the inactive list, whatever is called later.
C20_UnsatisfiableLatched ==
    /\ [][(InCycleBranch /\ pc' = "i_loop") =>
            /\ st'.unsat = [st.unsat EXCEPT ![MostViolated(st)] = TRUE]
            /\ st'.blocks = st.blocks
            /\ st'.bs = st.bs
            /\ st'.blockOf = st.blockOf
            /\ st'.offset = st.offset
            /\ st'.active = st.active]_vars
    /\ [](kind = "inc" =>
            \A c \in CIdx :
              st.unsat[c] =>
                /\ ~st.active[c]
                /\ \A i \in 1..Len(st.inactive) : st.inactive[i] # c)
    /\ [][Rebuild \/ (kind = "inc" =>
                        \A c \in CIdx : st.unsat[c] => st'.unsat[c])]_vars

\* a second call, made after a desired position changed, is in its merge loop
\* with a constraint that the first call marked unsatisfiable
C20_Witness ==
    /\ kind = "inc" /\ pc = "i_loop"
    /\ calls = 2 /\ moves = 1
    /\ ~lastSolve.rebuilt
    /\ \E c \in CIdx : st.unsat[c]

\* the blocks of the set of s that are marked deleted
Marked(s) == {b \in s.bs : s.blocks[b].deleted}

\* Block::updateWeightedPosition() has run on block b of s
Weighted(s, b) ==
    s.blocks[b].wposn =
      SumOver(s.blocks[b].vars,
              [x \in Vars |-> weight[x] * (desired[x] - s.offset[x])])

\* t is s after block b was split at the constraint v
SplitAt(s, t, b, v) ==
    LET l == t.blockOf[cs[v].left]
        r == t.blockOf[cs[v].right] IN
    /\ b \in s.bs /\ ~s.blocks[b].deleted
    /\ v = FindMinLM(s, b) /\ Splittable(s, v) /\ ~cs[v].equality
    /\ s.active[v] /\ ~t.active[v]
    /\ \A c \in CIdx \ {v} : t.active[c] = s.active[c]
    /\ t.inactive = Append(s.inactive, v)
    /\ Occurrences(t.inactive, v) = 1
    /\ b \in t.bs /\ t.blocks[b].deleted
    /\ l # r /\ l \notin s.bs /\ r \notin s.bs
    /\ t.bs = s.bs \cup {l, r}
    /\ ~t.blocks[l].deleted /\ ~t.blocks[r].deleted
    /\ cs[v].left \in t.blocks[l].vars /\ cs[v].right \in t.blocks[r].vars
    /\ t.blocks[l].vars \cup t.blocks[r].vars = s.blocks[b].vars
    /\ t.blocks[l].vars \cap t.blocks[r].vars = {}
    /\ Weighted(t, l) /\ Weighted(t, r)
    /\ \A x \in s.bs \ {b} : t.blocks[x] = s.blocks[x]

C21_WitnessIntact ==
    /\ kind = "inc" /\ pc = "i_loop" /\ loc.splitCnt = 0
    /\ calls = 2
    /\ \E b \in st.bs : ActiveIn(st, b) # {}

\* the variables the scan of Solver::satisfy has visited so far
Visited ==
    IF pc = "b_scan" THEN {loc.order[i] : i \in 1..(loc.i - 1)} ELSE {}

\* the place of variable v in the order of the scan
PlaceOf(v) == CHOOSE i \in 1..Len(loc.order) : loc.order[i] = v

\* the variables reached from those of S along the input constraints
RECURSIVE After(_)
After(S) ==
    LET N == S \cup {cs[c].right : c \in {d \in CIdx : cs[d].left \in S}} IN
    IF N = S THEN S ELSE After(N)

\* the input constraint graph has no directed cycle
Acyclic == \A c \in CIdx : cs[c].left \notin After({cs[c].right})

\* the scan visits the left variable of every constraint before its right
\* variable, and every constraint into a visited variable has slack >= 0
ScanInvariant ==
    /\ \A c \in CIdx : PlaceOf(cs[c].left) < PlaceOf(cs[c].right)
    /\ \A c \in CIdx : cs[c].right \in Visited => Slack(st, c)[1] >= 0

\* C22: when the input constraint graph is acyclic, the scan of
\* Solver::satisfy visits the variables in a topological order of it, and
\* after each visited variable's block was merged left every constraint whose
\* right variable was visited has non-negative slack, at every step of the
\* scan.  A step merges left the block of the next variable of the order
\* unless that block is deleted, and then it changes nothing.
C22_ScanInvariantAcyclic ==
    /\ [](pc = "b_scan" /\ Acyclic => ScanInvariant)
    /\ [][(pc = "b_scan" /\ pc' = "b_scan") =>
            LET v == loc.order[loc.i] IN
            /\ loc'.i = loc.i + 1 /\ loc'.order = loc.order
            /\ st' = IF st.blocks[st.blockOf[v]].deleted THEN st
                      ELSE MergeLeft(st, st.blockOf[v])]_vars

\* the scan has visited every variable of an acyclic input with three
\* constraints and merged two blocks on its way
C22_Witness ==
    /\ pc = "b_scan" /\ Acyclic /\ n = NumVars
    /\ Len(cs) = MaxCons
    /\ Visited = Vars
    /\ \E c \in CIdx : st.active[c]
    /\ \E c \in CIdx : ~st.active[c]

\* the number of active constraints of s
NumActive(s) == Cardinality({c \in CIdx : s.active[c]})

\* some block of the set of s has a constraint with lm < LAGRANGIAN_TOLERANCE
SomeSplittable(s) == \E b \in s.bs : Splittable(s, FindMinLM(s, b))

\* C23: Solver::refine always terminates.  Its loop starts with maxtries =
\* 100 and every pass counts it down by one, so there are at most 100 passes;
\* a pass that finds a block with lm < LAGRANGIAN_TOLERANCE makes exactly one
\* split, cleans up and leaves the loop to start over (one constraint fewer
\* is active, one block more is in the set, none is marked deleted), so there
\* are at most 100 splits; the first pass that finds no such block changes
\* nothing and ends the loop, as does maxtries = 0.
C23_RefineTerminates ==
    /\ (pc = "r_pass") ~> (pc = "idle")
    /\ [](pc = "r_pass" => loc.maxtries \in 0..MaxTries)
    /\ [][(pc # "r_pass" /\ pc' = "r_pass") =>
            loc'.maxtries = MaxTries /\ ~loc'.solved]_vars
    /\ [][(pc = "r_pass" /\ pc' = "r_pass") =>
            /\ ~loc.solved /\ loc.maxtries > 0
            /\ loc'.maxtries = loc.maxtries - 1
            /\ IF SomeSplittable(st)
               THEN /\ NumActive(st') = NumActive(st) - 1
                    /\ Cardinality(st'.bs) = Cardinality(st.bs) + 1
                    /\ Marked(st') = {}
                    /\ ~loc'.solved
               ELSE st' = st /\ loc'.solved]_vars
    /\ [][(pc = "r_pass" /\ (loc.solved \/ loc.maxtries = 0)) =>
            pc' = "idle"]_vars

\* refine has made its hundredth pass and split in each of them, and a block
\* with lm < LAGRANGIAN_TOLERANCE is left
C23_Witness ==
    /\ pc = "r_pass" /\ loc.maxtries = 0 /\ ~loc.solved
    /\ SomeSplittable(st)
    /\ NumActive(st) = Len(cs) - MaxTries

C24_WitnessReturned ==
    /\ InSplitBranch /\ SplitSatisfies
    /\ n = DragVars /\ calls = 1
====
